---- MODULE Spec2Model ----
(***************************************************************************)
(* folly::futures::detail::Core<T>: the shared state of a Future/Promise   *)
(* pair (folly/futures/detail/Core.h).                                     *)
(*                                                                         *)
(* The model is a multi-threaded state machine.  Every atomic access of    *)
(* the code (an FSM getState, an FSM tryUpdateState critical section, an   *)
(* atomic load/store/fetch-add, a callback invocation) is one step of the  *)
(* thread that performs it; thread-local computation is folded into the    *)
(* step of the access that precedes it.                                    *)
(*                                                                         *)
(* Threads: "promise" (producer side), "future" (consumer side), "other"   *)
(* (a thread using the "may call from any thread" operations through the   *)
(* future side's handle) and "executor" (runs or discards the closure      *)
(* submitted by doCallback).                                               *)
(***************************************************************************)
EXTENDS Integers, Sequences, FiniteSets, TLC

\* ------------------------------------------------------------------ bounds
\* number of distinct values a Try<T> can carry
NumVals == 2
\* API calls the threads make in all, the two detach calls not counted
MaxCalls == 3

\* ------------------------------------------------------------------ State
Start == "Start"
OnlyResult == "OnlyResult"
OnlyCallback == "OnlyCallback"
Armed == "Armed"
Done == "Done"
State == {Start, OnlyResult, OnlyCallback, Armed, Done}

\* ------------------------------------------------------------ Try<T> values
\* folly::Optional<X> is modelled as a sequence of length 0 or 1.
None == <<>>
Some(v) == <<v>>

TryValue(n) == [hasException |-> FALSE, value |-> n]
TryException(what) == [hasException |-> TRUE, what |-> what]
\* Try<T>(exception_wrapper(BrokenPromise(typeid(T).name())))
BrokenPromise == TryException("BrokenPromise")
\* Try<T>(std::move(ew)) for the exception thrown by Executor::add
ExecutorFailure == TryException("ExecutorAddThrew")
Values == {TryValue(n) : n \in 1..NumVals}

\* Executor::MID_PRI, the default priority of setExecutor
MID_PRI == 0
\* the executors a future can be put on: getNumPriorities() is 1 or more
Executors == {[numPriorities |-> 1], [numPriorities |-> 2]}

Promise == "promise"
Future == "future"
Other == "other"
Executor == "executor"
Clients == {Promise, Future, Other}
Threads == Clients \cup {Executor}

VARIABLES
  core,      \* the fields of the Core object
  alive,     \* FALSE once `delete this` has run
  deletes,   \* how many times `delete this` has run
  invoked,   \* the invocations of callback_, in order
  queue,     \* closures the executor accepted and has not yet run or dropped
  th,        \* per thread: program position and locals
  calls,     \* API calls made so far
  interruptLock,  \* the thread holding interruptLock_, if any
  handled,   \* the invocations of an interrupt handler, in order
  hist       \* history: who armed, who dispatched, what was installed,
             \* whether the executor threw or dropped the closure, and the
             \* threads inside activate() whose store a deactivate followed

vars ==
  <<core, alive, deletes, invoked, queue, th, calls, interruptLock, handled,
    hist>>

\* ------------------------------------------------------------ constructors
\* Core() : result_(), fsm_(State::Start), attached_(2)
CoreEmpty ==
  [ state |-> Start, result |-> None, callback |-> None, context |-> None,
    executor |-> None, priority |-> -1, active |-> TRUE,
    attached |-> 2, callbackReferences |-> 0,
    interrupt |-> None, interruptHandler |-> None,
    interruptHandlerSet |-> FALSE ]

\* A constructor that stores the result and leaves the FSM in Start.
CoreWithResultInStart(t) ==
  [ CoreEmpty EXCEPT !.result = Some(t), !.attached = 1 ]

\* Core(Try<T>&& t) and Core(in_place_t, args...):
\* result_(t), fsm_(State::OnlyResult), attached_(1)
CoreWithResult(t) ==
  [ CoreEmpty EXCEPT !.state = OnlyResult, !.result = Some(t), !.attached = 1 ]

\* ------------------------------------------------------------------- FSM
\* FSM::tryUpdateState(A, B, protectedAction): under the FSM lock, if the
\* state is still A run the protected action and store B.  `after` is the
\* core as the protected action leaves it.
tryUpdateState(c, A, B, after) ==
  IF c.state = A
    THEN [ok |-> TRUE, core |-> [after EXCEPT !.state = B]]
    ELSE [ok |-> FALSE, core |-> c]

\* -------------------------------------------------- the setters' switches
\* A setResult whose OnlyCallback case stores Done instead of Armed.
BadSetResultSwitch(s) ==
  CASE s = Start -> [throws |-> FALSE, to |-> OnlyResult, arm |-> FALSE]
    [] s = OnlyCallback -> [throws |-> FALSE, to |-> Done, arm |-> TRUE]
    [] OTHER -> [throws |-> TRUE, to |-> s, arm |-> FALSE]

\* setResult's switch on the state it read: the target state, whether the
\* unprotected action sets transitionToArmed, or the logic_error.
setResultSwitch(s) ==
  CASE s = Start -> [throws |-> FALSE, to |-> OnlyResult, arm |-> FALSE]
    [] s = OnlyCallback -> [throws |-> FALSE, to |-> Armed, arm |-> TRUE]
    [] OTHER -> [throws |-> TRUE, to |-> s, arm |-> FALSE]

\* A setCallback that accepts a second callback in OnlyCallback.
OverwritingSetCallbackSwitch(s) ==
  CASE s = Start -> [throws |-> FALSE, to |-> OnlyCallback, arm |-> FALSE]
    [] s = OnlyResult -> [throws |-> FALSE, to |-> Armed, arm |-> TRUE]
    [] s = OnlyCallback ->
         [throws |-> FALSE, to |-> OnlyCallback, arm |-> FALSE]
    [] OTHER -> [throws |-> TRUE, to |-> s, arm |-> FALSE]

\* setCallback's switch on the state it read.
setCallbackSwitch(s) ==
  CASE s = Start -> [throws |-> FALSE, to |-> OnlyCallback, arm |-> FALSE]
    [] s = OnlyResult -> [throws |-> FALSE, to |-> Armed, arm |-> TRUE]
    [] OTHER -> [throws |-> TRUE, to |-> s, arm |-> FALSE]

\* A protected action that leaves result_ alone.
ForgetfulSetResult_(c, t) == c

\* the protected action of setResult: result_ = std::move(t)
setResult_(c, t) == [c EXCEPT !.result = Some(t)]

\* the protected action of setCallback:
\* context_ = RequestContext::saveContext(); callback_ = std::forward<F>(func)
setCallback_(c, func, ctx) ==
  [c EXCEPT !.context = Some(ctx), !.callback = Some(func)]

\* ------------------------------------------------------------ ref counts
\* A detachOne that tests the decremented count: a = --attached_.
PreDecrementDetachOne(c) ==
  [core |-> [c EXCEPT !.attached = (@ - 1) % 256],
   deleted |-> (c.attached - 1) % 256 = 1]

\* detachOne: a = attached_--; if (a == 1) delete this.  attached_ is an
\* unsigned char, so the decrement wraps.
detachOne(c) ==
  [core |-> [c EXCEPT !.attached = (@ - 1) % 256], deleted |-> c.attached = 1]

\* A derefCallback that resets result_ along with callback_.
ResultClearingDerefCallback(c) ==
  LET n == (c.callbackReferences - 1) % 256
  IN [c EXCEPT !.callbackReferences = n,
               !.callback = IF n = 0 THEN None ELSE @,
               !.result = IF n = 0 THEN None ELSE @]

\* derefCallback: if (--callbackReferences_ == 0) callback_ = {}
derefCallback(c) ==
  LET n == (c.callbackReferences - 1) % 256
  IN [c EXCEPT !.callbackReferences = n,
               !.callback = IF n = 0 THEN None ELSE @]

\* callback_(std::move(*result_)) under RequestContextScopeGuard(context_),
\* run by thread t inside its call `during`: what the callback was, what it
\* received, the context it ran under, where it ran.
Invocation(c, t, during) ==
  [callback |-> c.callback, arg |-> c.result, context |-> c.context,
   thread |-> t, during |-> during]

\* ------------------------------------------------------------ maybeCallback
\* A maybeCallback that also goes on in the state Done.
RefiringMaybeCallbackSwitch(s) == s \in {Armed, Done}

\* maybeCallback's switch: only case State::Armed looks at active_.
maybeCallbackSwitch(s) == s = Armed

\* A maybeCallback that goes on whatever it loaded.
IgnoreActive(a) == TRUE

\* `if (active_.load(std::memory_order_acquire))`: whether the loaded value
\* lets maybeCallback go on to tryUpdateState(Armed, Done).
activeAllows(a) == a

\* ------------------------------------------------------------ thread state
NoOutcome == [err |-> "none", ret |-> None]
IdleThread ==
  [pc |-> "idle", op |-> "none", arg |-> None, st |-> Start, x |-> None,
   priority |-> -1, ew |-> None, active |-> TRUE, outcome |-> NoOutcome]
\* a side that has detached makes no further call
GoneThread == [IdleThread EXCEPT !.pc = "gone"]

\* thread t's call `name` is about to leave with exception e, or to return r
Thrown(name, e) ==
  [IdleThread EXCEPT !.pc = "throw", !.op = name,
                     !.outcome = [err |-> e, ret |-> None]]
Returned(name, r) ==
  [IdleThread EXCEPT !.pc = "return", !.op = name,
                     !.outcome = [err |-> "none", ret |-> r]]

\* Where thread t goes on when the setter or maybeCallback it is in returns:
\* detachPromise and detachFuture go on to their detachOne.
Return(t) ==
  CASE th[t].op = "detachPromise" ->
         [th[t] EXCEPT !.pc = "detachPromise:detachOne"]
    [] th[t].op = "detachFuture" ->
         [th[t] EXCEPT !.pc = "detachFuture:detachOne"]
    [] th[t].op = "activate" -> [th[t] EXCEPT !.pc = "return"]
    [] OTHER -> IdleThread

\* The future side's handle is usable by "other" only while the future side
\* holds it: not once detachFuture has begun.
HandleHeld(t) ==
  CASE t = Other -> th[Future].pc # "gone" /\ th[Future].op # "detachFuture"
    [] OTHER -> TRUE

CanCall(t) ==
  /\ th[t].pc = "idle"
  /\ calls < MaxCalls
  /\ HandleHeld(t)

Called(t) == calls' = calls + 1

\* ------------------------------------------------------------------- Init
\* An empty core shared by a promise and a future, or a core built with a
\* result, which only a future holds.
Init ==
  /\ \/ /\ core = CoreEmpty
        /\ th = [t \in Threads |-> IdleThread]
     \/ /\ \E v \in Values : core = CoreWithResult(v)
        /\ th = [t \in Threads |->
                   IF t = Promise THEN GoneThread ELSE IdleThread]
  /\ alive = TRUE
  /\ deletes = 0
  /\ invoked = <<>>
  /\ queue = <<>>
  /\ calls = 0
  /\ interruptLock = None
  /\ handled = <<>>
  /\ hist = [armedBy |-> None, doneBy |-> None, installed |-> core.result,
             rejected |-> FALSE, discarded |-> FALSE, stale |-> {}]

\* --------------------------------------------------------------- setResult
\* fsm_.transition's call of setResult's lambda with getState(): thread t,
\* being in `base`, reads the state and switches on it.
setResultTransition(t, base, v) ==
  LET sw == setResultSwitch(core.state)
  IN th' = [th EXCEPT ![t] =
              IF sw.throws
                THEN Thrown(base.op, "logic_error")
                ELSE [base EXCEPT !.pc = "setResult:tryUpdateState",
                                  !.st = core.state, !.arg = Some(v)]]

\* Promise thread: setResult(Try<T>&& t)
SetResult(t) ==
  /\ t = Promise
  /\ CanCall(t)
  /\ Called(t)
  /\ \E v \in Values :
       setResultTransition(t, [IdleThread EXCEPT !.op = "setResult"], v)
  /\ UNCHANGED <<core, alive, deletes, invoked, queue,
                 hist, interruptLock, handled>>

\* fsm_.transition loops: tryUpdateState returned false
SetResultRetry(t) ==
  /\ th[t].pc = "setResult:transition"
  /\ setResultTransition(t, th[t], th[t].arg[1])
  /\ UNCHANGED <<core, alive, deletes, invoked, queue,
                 calls, hist, interruptLock, handled>>

\* fsm_.tryUpdateState(state, OnlyResult | Armed, setResult_, ...)
SetResultTryUpdateState(t) ==
  /\ th[t].pc = "setResult:tryUpdateState"
  /\ LET sw == setResultSwitch(th[t].st)
         r == tryUpdateState(core, th[t].st, sw.to,
                             setResult_(core, th[t].arg[1]))
     IN /\ core' = r.core
        /\ IF r.ok
             THEN /\ hist' = [hist EXCEPT
                        !.installed = th[t].arg,
                        !.armedBy = IF sw.arm
                                      THEN Some([thread |-> t, op |-> th[t].op])
                                      ELSE @]
                  /\ th' = [th EXCEPT ![t] =
                              IF sw.arm THEN [@ EXCEPT !.pc = "maybeCallback"]
                                        ELSE Return(t)]
             ELSE /\ hist' = hist
                  /\ th' = [th EXCEPT ![t].pc = "setResult:transition"]
  /\ UNCHANGED <<alive, deletes, invoked, queue, calls, interruptLock, handled>>

\* ------------------------------------------------------------- setCallback
\* fsm_.transition's call of setCallback's lambda with getState(): thread
\* t, being in `base`, reads the state and switches on it.
setCallbackTransition(t, base, f) ==
  LET sw == setCallbackSwitch(core.state)
  IN th' = [th EXCEPT ![t] =
              IF sw.throws
                THEN Thrown(base.op, "logic_error")
                ELSE [base EXCEPT !.pc = "setCallback:tryUpdateState",
                                  !.st = core.state, !.arg = Some(f)]]

\* Future thread: setCallback(F&& func).  The callback passed is named by
\* the number of the call.
SetCallback(t) ==
  /\ t = Future
  /\ CanCall(t)
  /\ Called(t)
  /\ setCallbackTransition(t, [IdleThread EXCEPT !.op = "setCallback"],
                           calls + 1)
  /\ UNCHANGED <<core, alive, deletes, invoked, queue,
                 hist, interruptLock, handled>>

\* fsm_.transition loops: tryUpdateState returned false
SetCallbackRetry(t) ==
  /\ th[t].pc = "setCallback:transition"
  /\ setCallbackTransition(t, th[t], th[t].arg[1])
  /\ UNCHANGED <<core, alive, deletes, invoked, queue,
                 calls, hist, interruptLock, handled>>

\* fsm_.tryUpdateState(state, OnlyCallback | Armed, setCallback_, ...)
SetCallbackTryUpdateState(t) ==
  /\ th[t].pc = "setCallback:tryUpdateState"
  /\ LET sw == setCallbackSwitch(th[t].st)
         r == tryUpdateState(core, th[t].st, sw.to,
                             setCallback_(core, th[t].arg[1], t))
     IN /\ core' = r.core
        /\ IF r.ok
             THEN /\ hist' = [hist EXCEPT
                        !.armedBy = IF sw.arm
                                      THEN Some([thread |-> t, op |-> th[t].op])
                                      ELSE @]
                  /\ th' = [th EXCEPT ![t] =
                              IF sw.arm THEN [@ EXCEPT !.pc = "maybeCallback"]
                                        ELSE Return(t)]
             ELSE /\ hist' = hist
                  /\ th' = [th EXCEPT ![t].pc = "setCallback:transition"]
  /\ UNCHANGED <<alive, deletes, invoked, queue, calls, interruptLock, handled>>

\* ----------------------------------------------------------- maybeCallback
\* fsm_.transition's call of maybeCallback's lambda with getState()
MaybeCallback(t) ==
  /\ th[t].pc = "maybeCallback"
  /\ th' = [th EXCEPT ![t] =
              IF maybeCallbackSwitch(core.state)
                THEN [@ EXCEPT !.pc = "maybeCallback:active", !.st = core.state]
                ELSE Return(t)]
  /\ UNCHANGED <<core, alive, deletes, invoked, queue,
                 calls, hist, interruptLock, handled>>

\* case State::Armed: if (active_.load(std::memory_order_acquire))
MaybeCallbackActive(t) ==
  /\ th[t].pc = "maybeCallback:active"
  /\ th' = [th EXCEPT ![t] =
              IF activeAllows(core.active)
                THEN [@ EXCEPT !.pc = "maybeCallback:tryUpdateState",
                               !.active = core.active]
                ELSE Return(t)]
  /\ UNCHANGED <<core, alive, deletes, invoked, queue,
                 calls, hist, interruptLock, handled>>

\* A maybeCallback that runs doCallback whether or not its tryUpdateState
\* succeeded.
UncheckedMaybeCallbackTryUpdateState(t) ==
  /\ th[t].pc = "maybeCallback:tryUpdateState"
  /\ core' = tryUpdateState(core, th[t].st, Done, core).core
  /\ hist' = [hist EXCEPT !.doneBy = Some([thread |-> t, op |-> th[t].op])]
  /\ th' = [th EXCEPT ![t].pc = "doCallback"]
  /\ UNCHANGED <<alive, deletes, invoked, queue, calls, interruptLock, handled>>

\* fsm_.tryUpdateState(state, State::Done, [] {}, [&] { doCallback(); })
MaybeCallbackTryUpdateState(t) ==
  /\ th[t].pc = "maybeCallback:tryUpdateState"
  /\ LET r == tryUpdateState(core, th[t].st, Done, core)
     IN /\ core' = r.core
        /\ IF r.ok
             THEN /\ hist' = [hist EXCEPT
                        !.doneBy = Some([thread |-> t, op |-> th[t].op])]
                  /\ th' = [th EXCEPT ![t].pc = "doCallback"]
             ELSE /\ hist' = hist
                  /\ th' = [th EXCEPT ![t].pc = "maybeCallback"]
  /\ UNCHANGED <<alive, deletes, invoked, queue, calls, interruptLock, handled>>

\* -------------------------------------------------------------- doCallback
\* Executor* x = executor_.  executor_ and priority_ are plain members that
\* setExecutor writes without a lock, so each is read in a step of its own.
DoCallback(t) ==
  /\ th[t].pc = "doCallback"
  /\ th' = [th EXCEPT ![t] = [@ EXCEPT !.x = core.executor,
                                       !.pc = "doCallback:priority_"]]
  /\ UNCHANGED <<core, alive, deletes, invoked, queue,
                 calls, hist, interruptLock, handled>>

\* int8_t priority = priority_; if (x) ... else ...
DoCallbackPriority(t) ==
  /\ th[t].pc = "doCallback:priority_"
  /\ th' = [th EXCEPT ![t] =
              [@ EXCEPT !.priority = core.priority,
                        !.pc = IF th[t].x # None
                                 THEN "doCallback:attached_+=2"
                                 ELSE "doCallback:attached_++"]]
  /\ UNCHANGED <<core, alive, deletes, invoked, queue,
                 calls, hist, interruptLock, handled>>

\* A doCallback that takes one attachment for its two guards.
DoCallbackAttachOneForTwo(t) ==
  /\ th[t].pc = "doCallback:attached_+=2"
  /\ core' = [core EXCEPT !.attached = (@ + 1) % 256]
  /\ th' = [th EXCEPT ![t].pc = "doCallback:callbackReferences_+=2"]
  /\ UNCHANGED <<alive, deletes, invoked, queue, calls,
                 hist, interruptLock, handled>>

\* attached_ += 2
DoCallbackAttach2(t) ==
  /\ th[t].pc = "doCallback:attached_+=2"
  /\ core' = [core EXCEPT !.attached = (@ + 2) % 256]
  /\ th' = [th EXCEPT ![t].pc = "doCallback:callbackReferences_+=2"]
  /\ UNCHANGED <<alive, deletes, invoked, queue, calls,
                 hist, interruptLock, handled>>

\* A doCallback that counts one callback reference for its two guards.
DoCallbackRef1(t) ==
  /\ th[t].pc = "doCallback:callbackReferences_+=2"
  /\ core' = [core EXCEPT !.callbackReferences = (@ + 1) % 256]
  /\ th' = [th EXCEPT ![t].pc = "doCallback:add"]
  /\ UNCHANGED <<alive, deletes, invoked, queue, calls,
                 hist, interruptLock, handled>>

\* callbackReferences_ += 2
DoCallbackRef2(t) ==
  /\ th[t].pc = "doCallback:callbackReferences_+=2"
  /\ core' = [core EXCEPT !.callbackReferences = (@ + 2) % 256]
  /\ th' = [th EXCEPT ![t].pc = "doCallback:add"]
  /\ UNCHANGED <<alive, deletes, invoked, queue, calls,
                 hist, interruptLock, handled>>

\* the closure handed to the executor: by add when the executor has one
\* priority, by addWithPriority(..., priority) otherwise
Closure(x, priority) ==
  IF x.numPriorities = 1
    THEN [via |-> "add", priority |-> None]
    ELSE [via |-> "addWithPriority", priority |-> Some(priority)]

\* x->add / x->addWithPriority returns: the executor holds the closure, and
\* with it guard_lambda's reference
DoCallbackAddAccepted(t) ==
  /\ th[t].pc = "doCallback:add"
  /\ queue' = Append(queue, Closure(th[t].x[1], th[t].priority))
  /\ th' = [th EXCEPT ![t].pc = "doCallback:~guard_local_scope.derefCallback"]
  /\ UNCHANGED <<core, alive, deletes, invoked, calls,
                 hist, interruptLock, handled>>

\* x->add / x->addWithPriority throws: the closure is destroyed unrun during
\* unwinding (its reference detaches), then the exception is caught into ew
DoCallbackAddThrows(t) ==
  /\ th[t].pc = "doCallback:add"
  /\ th' = [th EXCEPT ![t] = [@ EXCEPT !.ew = Some(ExecutorFailure),
                                 !.pc = "doCallback:~closure.derefCallback"]]
  /\ hist' = [hist EXCEPT !.rejected = TRUE]
  /\ UNCHANGED <<core, alive, deletes, invoked, queue,
                 calls, interruptLock, handled>>

\* if (ew) result_ = Try<T>(std::move(ew))
DoCallbackSetFailure(t) ==
  /\ th[t].pc = "doCallback:result_=ew"
  /\ core' = [core EXCEPT !.result = th[t].ew]
  /\ th' = [th EXCEPT ![t].pc = "doCallback:callback_(ew)"]
  /\ UNCHANGED <<alive, deletes, invoked, queue, calls,
                 hist, interruptLock, handled>>

\* attached_++ (no executor)
DoCallbackAttach1(t) ==
  /\ th[t].pc = "doCallback:attached_++"
  /\ core' = [core EXCEPT !.attached = (@ + 1) % 256]
  /\ th' = [th EXCEPT ![t].pc = "doCallback:callback_"]
  /\ UNCHANGED <<alive, deletes, invoked, queue, calls,
                 hist, interruptLock, handled>>

\* A SCOPE_EXIT that goes to detachOne without resetting callback_.
ForgetfulDoCallbackScopeExit(t) ==
  /\ th[t].pc = "doCallback:SCOPE_EXIT.callback_={}"
  /\ th' = [th EXCEPT ![t].pc = "doCallback:SCOPE_EXIT.detachOne"]
  /\ UNCHANGED <<core, alive, deletes, invoked, queue, calls,
                 hist, interruptLock, handled>>

\* SCOPE_EXIT { callback_ = {}; ... }
DoCallbackScopeExit(t) ==
  /\ th[t].pc = "doCallback:SCOPE_EXIT.callback_={}"
  /\ core' = [core EXCEPT !.callback = None]
  /\ th' = [th EXCEPT ![t].pc = "doCallback:SCOPE_EXIT.detachOne"]
  /\ UNCHANGED <<alive, deletes, invoked, queue, calls,
                 hist, interruptLock, handled>>

\* The places where callback_(std::move(*result_)) is called, and the place
\* that follows each: doCallback without executor, doCallback after a failed
\* submission, the closure run by the executor.
AfterCallback(p) ==
  CASE p = "doCallback:callback_" -> "doCallback:SCOPE_EXIT.callback_={}"
    [] p = "doCallback:callback_(ew)" ->
         "doCallback:~guard_local_scope.derefCallback"
    [] p = "closure:callback_" -> "closure:~cr.derefCallback"

CallbackPcs ==
  {"doCallback:callback_", "doCallback:callback_(ew)", "closure:callback_"}

\* callback_(std::move(*result_))
InvokeCallback(t) ==
  /\ th[t].pc \in CallbackPcs
  /\ invoked' = Append(invoked, Invocation(core, t, th[t].op))
  /\ th' = [th EXCEPT ![t].pc = AfterCallback(@)]
  /\ UNCHANGED <<core, alive, deletes, queue, calls,
                 hist, interruptLock, handled>>

\* The places where a CoreAndCallbackReference is destroyed
\* (derefCallback, then detachOne).
AfterDerefCallback(p) ==
  CASE p = "doCallback:~closure.derefCallback" ->
         "doCallback:~closure.detachOne"
    [] p = "doCallback:~guard_local_scope.derefCallback" ->
         "doCallback:~guard_local_scope.detachOne"
    [] p = "closure:~cr.derefCallback" -> "closure:~cr.detachOne"
    [] p = "discard:~closure.derefCallback" -> "discard:~closure.detachOne"

DerefCallbackPcs ==
  {"doCallback:~closure.derefCallback",
   "doCallback:~guard_local_scope.derefCallback",
   "closure:~cr.derefCallback", "discard:~closure.derefCallback"}

\* CoreAndCallbackReference::detach: core_->derefCallback()
DerefCallback(t) ==
  /\ th[t].pc \in DerefCallbackPcs
  /\ core' = derefCallback(core)
  /\ th' = [th EXCEPT ![t].pc = AfterDerefCallback(@)]
  /\ UNCHANGED <<alive, deletes, invoked, queue, calls,
                 hist, interruptLock, handled>>

\* The places where detachOne is called.
DetachOnePcs ==
  {"doCallback:~closure.detachOne", "doCallback:~guard_local_scope.detachOne",
   "doCallback:SCOPE_EXIT.detachOne", "closure:~cr.detachOne",
   "discard:~closure.detachOne", "detachPromise:detachOne",
   "detachFuture:detachOne"}

\* A doCallback that, after a failed submission, calls the callback without
\* storing the failure in result_ first.
KeepingResultAfterDetachOne(t) ==
  LET p == th[t].pc
  IN CASE p = "doCallback:~closure.detachOne" ->
            [th[t] EXCEPT !.pc = "doCallback:callback_(ew)"]
       [] p \in {"doCallback:~guard_local_scope.detachOne",
                 "doCallback:SCOPE_EXIT.detachOne"} -> Return(t)
       [] p \in {"closure:~cr.detachOne", "discard:~closure.detachOne"} ->
            IdleThread
       [] p \in {"detachPromise:detachOne", "detachFuture:detachOne"} ->
            GoneThread

\* What thread t does after each detachOne: after the closure's reference
\* is released by a failed submission, `if (ew) result_ = ...`; after
\* doCallback's last release, the return from maybeCallback; the executor
\* is done; a side that detached is gone.
AfterDetachOne(t) ==
  LET p == th[t].pc
  IN CASE p = "doCallback:~closure.detachOne" ->
            [th[t] EXCEPT !.pc = "doCallback:result_=ew"]
       [] p \in {"doCallback:~guard_local_scope.detachOne",
                 "doCallback:SCOPE_EXIT.detachOne"} -> Return(t)
       [] p \in {"closure:~cr.detachOne", "discard:~closure.detachOne"} ->
            IdleThread
       [] p \in {"detachPromise:detachOne", "detachFuture:detachOne"} ->
            GoneThread

\* detachOne()
DetachOne(t) ==
  /\ th[t].pc \in DetachOnePcs
  /\ LET r == detachOne(core)
     IN /\ core' = r.core
        /\ alive' = (alive /\ ~r.deleted)
        /\ deletes' = deletes + (IF r.deleted THEN 1 ELSE 0)
  /\ th' = [th EXCEPT ![t] = AfterDetachOne(t)]
  /\ UNCHANGED <<invoked, queue, calls, hist, interruptLock, handled>>

\* -------------------------------------------------- detachment, activation
\* A detachPromise that tests the FSM state for Start instead.
DetachPromiseTestsStart(c) == c.state = Start

\* detachPromise's test `if (UNLIKELY(!result_))`
detachPromiseNeedsResult(c) == c.result = None

\* Promise thread, its last call: detachPromise().  Without a result it
\* calls setResult(Try<T>(exception_wrapper(BrokenPromise(...)))) first.
DetachPromise(t) ==
  /\ t = Promise
  /\ th[t].pc = "idle"
  /\ th' = [th EXCEPT ![t] =
              IF detachPromiseNeedsResult(core)
                THEN [IdleThread EXCEPT !.op = "detachPromise",
                                        !.pc = "setResult:transition",
                                        !.arg = Some(BrokenPromise)]
                ELSE [IdleThread EXCEPT !.op = "detachPromise",
                                        !.pc = "detachPromise:detachOne"]]
  /\ UNCHANGED <<core, alive, deletes, invoked, queue,
                 calls, hist, interruptLock, handled>>

\* Future thread, its last call: detachFuture() { activate(); detachOne(); }
\* This step is activate's store.
DetachFuture(t) ==
  /\ t = Future
  /\ th[t].pc = "idle"
  /\ th[Other].pc = "idle"
  /\ core' = [core EXCEPT !.active = TRUE]
  /\ th' = [th EXCEPT ![t] = [IdleThread EXCEPT !.op = "detachFuture",
                                               !.pc = "maybeCallback"]]
  /\ UNCHANGED <<alive, deletes, invoked, queue, calls,
                 hist, interruptLock, handled>>

\* deactivate(): active_.store(false, std::memory_order_release)
Deactivate(t) ==
  /\ t \in {Future, Other}
  /\ CanCall(t)
  /\ Called(t)
  /\ core' = [core EXCEPT !.active = FALSE]
  /\ th' = [th EXCEPT ![t] = IdleThread]
  /\ hist' = [hist EXCEPT !.stale = {u \in Clients : th[u].op = "activate"}]
  /\ UNCHANGED <<alive, deletes, invoked, queue, interruptLock, handled>>

\* An activate() that stores and returns without calling maybeCallback().
StoreOnlyActivate(t) ==
  /\ t \in {Future, Other}
  /\ CanCall(t)
  /\ Called(t)
  /\ core' = [core EXCEPT !.active = TRUE]
  /\ th' = [th EXCEPT ![t] = [IdleThread EXCEPT !.op = "activate",
                                               !.pc = "return"]]
  /\ hist' = [hist EXCEPT !.stale = @ \ {t}]
  /\ UNCHANGED <<alive, deletes, invoked, queue, interruptLock, handled>>

\* activate(): active_.store(true, std::memory_order_release), then
\* maybeCallback()
Activate(t) ==
  /\ t \in {Future, Other}
  /\ CanCall(t)
  /\ Called(t)
  /\ core' = [core EXCEPT !.active = TRUE]
  /\ th' = [th EXCEPT ![t] = [IdleThread EXCEPT !.op = "activate",
                                               !.pc = "maybeCallback"]]
  /\ hist' = [hist EXCEPT !.stale = @ \ {t}]
  /\ UNCHANGED <<alive, deletes, invoked, queue, interruptLock, handled>>

\* ---------------------------------------------------- back in the caller
\* activate(), getTry(), setInterruptHandler() or a raise() that stored
\* nothing returns; the exception a call threw reaches the caller
BackInCaller(t) ==
  /\ th[t].pc \in {"return", "throw"}
  /\ th' = [th EXCEPT ![t] = IdleThread]
  /\ hist' = [hist EXCEPT !.stale = @ \ {t}]
  /\ UNCHANGED <<core, alive, deletes, invoked, queue,
                 calls, interruptLock, handled>>

\* ------------------------------------------------------------- setExecutor
\* A setExecutor whose assertion also admits Armed.
setExecutorAllowedArmed(s) == s \in {Start, OnlyResult, Armed, Done}

\* DCHECK(s == State::Start || s == State::OnlyResult || s == State::Done)
setExecutorAllowed(s) == s \in {Start, OnlyResult, Done}

\* Future thread: setExecutor(x, priority), called where its DCHECK holds.
\* This step is `auto s = fsm_.getState()` and the DCHECK.
SetExecutor(t) ==
  /\ t = Future
  /\ CanCall(t)
  /\ Called(t)
  /\ setExecutorAllowed(core.state)
  /\ \E x \in Executors :
       th' = [th EXCEPT ![t] =
                [IdleThread EXCEPT !.op = "setExecutor", !.st = core.state,
                                   !.pc = "setExecutor:executor_=x",
                                   !.arg = Some(x)]]
  /\ UNCHANGED <<core, alive, deletes, invoked, queue,
                 hist, interruptLock, handled>>

\* executor_ = x
SetExecutorStore(t) ==
  /\ th[t].pc = "setExecutor:executor_=x"
  /\ core' = [core EXCEPT !.executor = th[t].arg]
  /\ th' = [th EXCEPT ![t].pc = "setExecutor:priority_=priority"]
  /\ UNCHANGED <<alive, deletes, invoked, queue, calls,
                 hist, interruptLock, handled>>

\* priority_ = priority, the default Executor::MID_PRI
SetExecutorPriorityStore(t) ==
  /\ th[t].pc = "setExecutor:priority_=priority"
  /\ core' = [core EXCEPT !.priority = MID_PRI]
  /\ th' = [th EXCEPT ![t] = IdleThread]
  /\ UNCHANGED <<alive, deletes, invoked, queue, calls,
                 hist, interruptLock, handled>>

\* ------------------------------------------------------------------ getTry
\* A hasResult() that is also true in OnlyCallback.
HasResultOrCallback(s) == s \in {OnlyResult, OnlyCallback, Armed, Done}

\* hasResult(), which ready() returns: a switch on fsm_.getState()
hasResult(s) == s \in {OnlyResult, Armed, Done}

\* any thread: getTry() -> getTryImpl: if (self.ready()) ... else
\* throwFutureNotReady().  This step is ready()'s getState.
GetTry(t) ==
  /\ t \in Clients
  /\ CanCall(t)
  /\ Called(t)
  /\ th' = [th EXCEPT ![t] =
              IF hasResult(core.state)
                THEN [IdleThread EXCEPT !.op = "getTry", !.st = core.state,
                                        !.pc = "getTry:*result_"]
                ELSE Thrown("getTry", "FutureNotReady")]
  /\ UNCHANGED <<core, alive, deletes, invoked, queue,
                 hist, interruptLock, handled>>

\* return *self.result_
GetTryResult(t) ==
  /\ th[t].pc = "getTry:*result_"
  /\ th' = [th EXCEPT ![t] = Returned("getTry", core.result)]
  /\ UNCHANGED <<core, alive, deletes, invoked, queue,
                 calls, hist, interruptLock, handled>>

\* --------------------------------------------------------------- interrupt
\* the exceptions the future side raises
Interrupts == {"X", "Y"}

\* A raise that does not test interrupt_.
OverwritingRaiseStores(c) == ~hasResult(c.state)

\* A raise that does not test hasResult().
ResultBlindRaiseStores(c) == c.interrupt = None

\* raise's test `if (!interrupt_ && !hasResult())`
raiseStores(c) == c.interrupt = None /\ ~hasResult(c.state)

\* Future thread: raise(exception_wrapper e).  This step takes
\* interruptLock_ and makes the test; when it fails the lock is released
\* and raise returns.
Raise(t) ==
  /\ t = Future
  /\ CanCall(t)
  /\ Called(t)
  /\ interruptLock = None
  /\ \E e \in Interrupts :
       IF raiseStores(core)
         THEN /\ interruptLock' = Some(t)
              /\ th' = [th EXCEPT ![t] =
                         [IdleThread EXCEPT !.op = "raise", !.arg = Some(e),
                                            !.st = core.state,
                                            !.pc = "raise:interrupt_=e"]]
         ELSE /\ interruptLock' = None
              /\ th' = [th EXCEPT ![t] = Returned("raise", None)]
  /\ UNCHANGED <<core, alive, deletes, invoked, queue, handled, hist>>

\* A raise that completes the future with the interrupt it stores.
CompletingRaiseStore(t) ==
  /\ th[t].pc = "raise:interrupt_=e"
  /\ core' = [core EXCEPT !.interrupt = th[t].arg,
                          !.result = Some(TryException(th[t].arg[1])),
                          !.state = IF @ = Start THEN OnlyResult ELSE Armed]
  /\ handled' = handled
  /\ interruptLock' = None
  /\ th' = [th EXCEPT ![t] = IdleThread]
  /\ UNCHANGED <<alive, deletes, invoked, queue, calls, hist>>

\* interrupt_ = make_unique(e); if (interruptHandler_)
\* interruptHandler_(*interrupt_); then the lock is released
RaiseStore(t) ==
  /\ th[t].pc = "raise:interrupt_=e"
  /\ core' = [core EXCEPT !.interrupt = th[t].arg]
  /\ handled' = IF core.interruptHandler # None
                  THEN Append(handled, [handler |-> core.interruptHandler[1],
                                        interrupt |-> th[t].arg[1],
                                        thread |-> t])
                  ELSE handled
  /\ interruptLock' = None
  /\ th' = [th EXCEPT ![t] = IdleThread]
  /\ UNCHANGED <<alive, deletes, invoked, queue, calls, hist>>

\* setInterruptHandlerNoLock(fn)
setInterruptHandlerNoLock(c, fn) ==
  [c EXCEPT !.interruptHandlerSet = TRUE, !.interruptHandler = Some(fn)]

\* Promise thread: setInterruptHandler(fn), under interruptLock_.  No other
\* thread's step changes what it reads while it holds the lock (hasResult()
\* changes only by the Promise thread's own setResult), so it is one step.
SetInterruptHandler(t) ==
  /\ t = Promise
  /\ CanCall(t)
  /\ Called(t)
  /\ interruptLock = None
  /\ LET fn == calls + 1
     IN IF hasResult(core.state)
          THEN UNCHANGED <<core, handled>>
          ELSE IF core.interrupt # None
                 THEN /\ handled' = Append(handled,
                                          [handler |-> fn,
                                           interrupt |-> core.interrupt[1],
                                           thread |-> t])
                      /\ core' = core
                 ELSE /\ core' = setInterruptHandlerNoLock(core, fn)
                      /\ handled' = handled
  /\ th' = [th EXCEPT ![t] = Returned("setInterruptHandler", None)]
  /\ UNCHANGED <<alive, deletes, invoked, queue, interruptLock, hist>>

\* ---------------------------------------------------------------- executor
\* The executor runs the closure it holds: cr = std::move(core_ref), then
\* core->callback_(std::move(*core->result_)), then cr is destroyed.
ExecutorRun(t) ==
  /\ t = Executor
  /\ th[t].pc = "idle"
  /\ queue # <<>>
  /\ queue' = Tail(queue)
  /\ th' = [th EXCEPT ![t] = [IdleThread EXCEPT !.op = "closure",
                                               !.pc = "closure:callback_"]]
  /\ UNCHANGED <<core, alive, deletes, invoked, calls,
                 hist, interruptLock, handled>>

\* The executor drops the closure it holds without running it: core_ref is
\* destroyed with the closure.
ExecutorDiscard(t) ==
  /\ t = Executor
  /\ th[t].pc = "idle"
  /\ queue # <<>>
  /\ queue' = Tail(queue)
  /\ th' = [th EXCEPT ![t] =
              [IdleThread EXCEPT !.op = "discard",
                                 !.pc = "discard:~closure.derefCallback"]]
  /\ hist' = [hist EXCEPT !.discarded = TRUE]
  /\ UNCHANGED <<core, alive, deletes, invoked, calls, interruptLock, handled>>

\* -------------------------------------------------------------------- Next
Next ==
  \E t \in Threads :
    \/ SetResult(t)
    \/ SetResultRetry(t)
    \/ SetResultTryUpdateState(t)
    \/ SetCallback(t)
    \/ SetCallbackRetry(t)
    \/ SetCallbackTryUpdateState(t)
    \/ MaybeCallback(t)
    \/ MaybeCallbackActive(t)
    \/ MaybeCallbackTryUpdateState(t)
    \/ DoCallback(t)
    \/ DoCallbackPriority(t)
    \/ DoCallbackAttach2(t)
    \/ DoCallbackRef2(t)
    \/ DoCallbackAddAccepted(t)
    \/ DoCallbackAddThrows(t)
    \/ DoCallbackSetFailure(t)
    \/ DoCallbackAttach1(t)
    \/ DoCallbackScopeExit(t)
    \/ InvokeCallback(t)
    \/ DerefCallback(t)
    \/ DetachOne(t)
    \/ DetachPromise(t)
    \/ DetachFuture(t)
    \/ Deactivate(t)
    \/ Activate(t)
    \/ BackInCaller(t)
    \/ SetExecutor(t)
    \/ SetExecutorStore(t)
    \/ SetExecutorPriorityStore(t)
    \/ GetTry(t)
    \/ GetTryResult(t)
    \/ Raise(t)
    \/ RaiseStore(t)
    \/ SetInterruptHandler(t)
    \/ ExecutorRun(t)
    \/ ExecutorDiscard(t)

Spec == Init /\ [][Next]_vars

\* ------------------------------------------------- calls run without a break
\* The producer's calls as the code runs them when no other thread takes a
\* step in between, as functions of the world w = the core, whether it is
\* alive, the callback invocations, the executor's queue and the error
\* thrown.  `accepts` is whether the executor accepts the closure.
World == [core |-> core, alive |-> alive, invoked |-> invoked,
          queue |-> queue, err |-> "none"]

\* detachOne()
runDetachOne(w) ==
  LET r == detachOne(w.core)
  IN [w EXCEPT !.core = r.core, !.alive = (w.alive /\ ~r.deleted)]

\* ~CoreAndCallbackReference(): derefCallback(), detachOne()
runReferenceDetach(w) ==
  runDetachOne([w EXCEPT !.core = derefCallback(w.core)])

\* callback_(std::move(*result_))
runCallback(w, t, during) ==
  [w EXCEPT !.invoked = Append(@, Invocation(w.core, t, during))]

\* doCallback()
runDoCallback(w, t, during, accepts) ==
  IF w.core.executor # None
    THEN LET w1 == [w EXCEPT !.core.attached = (@ + 2) % 256,
                             !.core.callbackReferences = (@ + 2) % 256]
         IN IF accepts
              THEN runReferenceDetach(
                     [w1 EXCEPT !.queue =
                        Append(@, Closure(w.core.executor[1],
                                          w.core.priority))])
              ELSE LET w2 == runReferenceDetach(w1)
                       w3 == [w2 EXCEPT !.core.result = Some(ExecutorFailure)]
                   IN runReferenceDetach(runCallback(w3, t, during))
    ELSE LET w1 == [w EXCEPT !.core.attached = (@ + 1) % 256]
             w2 == runCallback(w1, t, during)
         IN runDetachOne([w2 EXCEPT !.core.callback = None])

\* maybeCallback()
runMaybeCallback(w, t, during, accepts) ==
  IF maybeCallbackSwitch(w.core.state) /\ activeAllows(w.core.active)
    THEN LET r == tryUpdateState(w.core, w.core.state, Done, w.core)
         IN runDoCallback([w EXCEPT !.core = r.core], t, during, accepts)
    ELSE w

\* setResult(v)
runSetResult(w, t, during, v, accepts) ==
  LET sw == setResultSwitch(w.core.state)
  IN IF sw.throws
       THEN [w EXCEPT !.err = "logic_error"]
       ELSE LET r == tryUpdateState(w.core, w.core.state, sw.to,
                                    setResult_(w.core, v))
                w1 == [w EXCEPT !.core = r.core]
            IN IF sw.arm THEN runMaybeCallback(w1, t, during, accepts)
                         ELSE w1

\* detachPromise()
runDetachPromise(w, t, accepts) ==
  runDetachOne(IF detachPromiseNeedsResult(w.core)
                 THEN runSetResult(w, t, "detachPromise", BrokenPromise,
                                   accepts)
                 ELSE w)

\* ================================================================== claims
Quiet(t) == th[t].pc \in {"idle", "gone"}
EverArmed == core.state \in {Armed, Done}

\* C1 as stated: every core that reached Armed has had its callback invoked
\* exactly once by the time it is destroyed.
C1_ExactlyOnceAsStated ==
  (~alive /\ EverArmed) => Len(invoked) = 1

\* C1 (amended): the callback is invoked at most once, and only after the
\* Armed -> Done transition; a destroyed core that reached Armed has had it
\* invoked exactly once unless the executor dropped the submitted closure
\* without running it, and then it is never invoked.
C1_AtMostOnceAndOnceUnlessDiscarded ==
  /\ Len(invoked) <= 1
  /\ invoked # <<>> => (core.state = Done /\ hist.doneBy # None)
  /\ hist.discarded => invoked = <<>>
  /\ (~alive /\ EverArmed /\ ~hist.discarded) => Len(invoked) = 1
  /\ ~alive => core.state # Armed

\* C1 witness: a destroyed core whose callback the executor ran once
C1_Witness ==
  /\ ~alive
  /\ Len(invoked) = 1
  /\ invoked[1].thread = Executor

\* C2 as stated: whatever the interleaving, the callback receives the value
\* that setResult installed.
C2_ReceivesInstalledAsStated ==
  \A i \in DOMAIN invoked : invoked[i].arg = hist.installed

\* C2 (amended): the callback receives the value setResult (or the
\* constructor) installed, except when the executor's add threw: it then
\* receives the executor's failure.
C2_ReceivesInstalledUnlessRejected ==
  \A i \in DOMAIN invoked :
    /\ invoked[i].callback # None
    /\ hist.installed # None
    /\ invoked[i].arg =
         IF hist.rejected THEN Some(ExecutorFailure) ELSE hist.installed

\* C2 witness: the callback received the value 2 that setResult installed
\* after the callback was registered
C2_Witness ==
  /\ invoked # <<>>
  /\ invoked[1].arg = Some(TryValue(2))
  /\ hist.armedBy = Some([thread |-> Promise, op |-> "setResult"])

\* C3: every change of the FSM state is one of Start -> OnlyResult,
\* Start -> OnlyCallback, OnlyResult -> Armed, OnlyCallback -> Armed,
\* Armed -> Done.
FsmEdges ==
  {<<Start, OnlyResult>>, <<Start, OnlyCallback>>, <<OnlyResult, Armed>>,
   <<OnlyCallback, Armed>>, <<Armed, Done>>}

C3_Monotonic ==
  [][core'.state # core.state => <<core.state, core'.state>> \in FsmEdges]_vars

\* C3 witness: a core armed by setCallback and driven to Done by an activate
C3_Witness ==
  /\ core.state = Done
  /\ hist.armedBy # None /\ hist.armedBy[1].op = "setCallback"
  /\ hist.doneBy # None /\ hist.doneBy[1].op = "activate"

\* the step in which idle thread t makes the call `name`
CallStep(t, name) == th[t].pc = "idle" /\ th'[t].op = name

\* after the step, thread t's call is leaving with exception e
Throws(t, e) == th'[t].pc = "throw" /\ th'[t].outcome.err = e

\* C4: a setResult called with the state OnlyResult, Armed or Done, and a
\* setCallback called with the state OnlyCallback, Armed or Done, throws the
\* logic error and leaves the whole core as it was; a setter throws in no
\* other state, and the FSM state is always one of the five states.
C4_DuplicateSetterRejected ==
  [][ /\ CallStep(Promise, "setResult") =>
           /\ (core.state \in {OnlyResult, Armed, Done})
                 <=> Throws(Promise, "logic_error")
           /\ Throws(Promise, "logic_error") => core' = core
      /\ CallStep(Future, "setCallback") =>
           /\ (core.state \in {OnlyCallback, Armed, Done})
                 <=> Throws(Future, "logic_error")
           /\ Throws(Future, "logic_error") => core' = core
      /\ \A t \in Threads :
           (th[t].pc # "throw" /\ Throws(t, "logic_error"))
              => /\ th[t].pc = "idle"
                 /\ th'[t].op \in {"setResult", "setCallback"}
      /\ \A t \in Threads :
           th[t].pc = "throw" => (core' = core \/ th'[t] = th[t])
      /\ core'.state \in State ]_vars

\* C4 witness: the second setCallback is rejected with the callback of the
\* first call still in its slot
C4_Witness ==
  /\ th[Future].pc = "throw"
  /\ th[Future].outcome.err = "logic_error"
  /\ core.state = OnlyCallback
  /\ core.callback = Some(1)

\* What an observer of the core can tell of a world: everything but the
\* name of the call a callback invocation ran in.
Observable(w) ==
  [core |-> w.core, alive |-> w.alive, queue |-> w.queue, err |-> w.err,
   invoked |-> [i \in DOMAIN w.invoked |->
                  [callback |-> w.invoked[i].callback,
                   arg |-> w.invoked[i].arg,
                   context |-> w.invoked[i].context,
                   thread |-> w.invoked[i].thread]]]

\* the promise side is between two calls and holds no result
PromiseWithoutResult == th[Promise].pc = "idle" /\ core.result = None

\* C5: from every reachable state in which the promise side holds a core
\* without result, detachPromise() leaves the same core, liveness, executor
\* queue and callback invocations as setResult(broken promise) followed by
\* detachPromise(): the result is set, the promise's attachment is released
\* (a closure the executor accepted holds one of its own), and a callback
\* that is registered and active is dispatched with the broken-promise
\* failure.
C5_DetachPromiseEquivalence ==
  PromiseWithoutResult =>
    \A accepts \in BOOLEAN :
      LET direct == runDetachPromise(World, Promise, accepts)
          first == runSetResult(World, Promise, "setResult", BrokenPromise,
                                accepts)
          split == runDetachPromise(first, Promise, accepts)
      IN /\ Observable(direct) = Observable(split)
         /\ direct.err = "none"
         /\ direct.core.result # None
         /\ direct.core.attached =
              core.attached - 1 + (Len(direct.queue) - Len(queue))
         /\ (core.state = OnlyCallback /\ core.active /\ core.executor = None)
              => /\ direct.core.state = Done
                 /\ direct.invoked =
                      Append(invoked,
                             [callback |-> core.callback,
                              arg |-> Some(BrokenPromise),
                              context |-> core.context,
                              thread |-> Promise, during |-> "detachPromise"])

\* C5 witness: the promise side holds a core without result whose callback
\* is registered and active, with an executor attached
C5_Witness ==
  /\ PromiseWithoutResult
  /\ core.state = OnlyCallback
  /\ core.active
  /\ core.executor # None

\* the positions of doCallback between a failed executor submission and the
\* call of the callback with the failure
RejectedBeforeCallback ==
  {"doCallback:~closure.derefCallback", "doCallback:~closure.detachOne",
   "doCallback:result_=ew", "doCallback:callback_(ew)"}

\* C6: once the executor's add or addWithPriority has thrown, the thread
\* that took Armed -> Done is a client thread that either is still inside
\* that same call on its way to the callback, or has invoked the callback:
\* exactly once, itself, in that call, with the executor's failure, which is
\* then also the stored result.
C6_RejectionDeliveredSynchronously ==
  hist.rejected =>
    /\ hist.doneBy # None
    /\ LET d == hist.doneBy[1]
       IN /\ d.thread \in Clients
          /\ d.op \in {"setResult", "setCallback", "activate",
                       "detachPromise", "detachFuture"}
          /\ Len(invoked) <= 1
          /\ invoked = <<>> =>
               /\ th[d.thread].pc \in RejectedBeforeCallback
               /\ th[d.thread].op = d.op
          /\ invoked # <<>> =>
               /\ invoked[1].thread = d.thread
               /\ invoked[1].during = d.op
               /\ invoked[1].callback # None
               /\ invoked[1].arg = Some(ExecutorFailure)
               /\ core.result = Some(ExecutorFailure)
          /\ queue = <<>>
          /\ Quiet(Executor)

\* C6 witness: the executor threw inside setResult and the promise thread
\* has called the callback with the failure
C6_Witness ==
  /\ hist.rejected
  /\ invoked # <<>>
  /\ invoked[1].thread = Promise
  /\ invoked[1].during = "setResult"

\* C7 as stated: the Armed -> Done transition is never taken at a moment
\* when active is false.
C7_NeverDoneWhileInactiveAsStated ==
  [][(core.state = Armed /\ core'.state = Done) => core.active]_vars

\* C7 (amended): the Armed -> Done transition is taken only by a thread
\* whose maybeCallback loaded active = true after reading the state Armed,
\* and a maybeCallback that loads active = false goes no further and leaves
\* the core as it is; the load is made before tryUpdateState takes the FSM
\* lock, so active may have become false by the time of the transition.
C7_DoneOnlyAfterLoadingActive ==
  [][ /\ (core.state = Armed /\ core'.state = Done) =>
           \E t \in Clients :
             /\ th[t].pc = "maybeCallback:tryUpdateState"
             /\ th'[t].pc = "doCallback"
             /\ th[t].active
      /\ \A t \in Clients :
           (th[t].pc = "maybeCallback:active" /\ th'[t] # th[t]) =>
              /\ core' = core
              /\ core.active => (th'[t].pc = "maybeCallback:tryUpdateState"
                                   /\ th'[t].active)
              /\ ~core.active => th'[t].pc # "maybeCallback:tryUpdateState"
    ]_vars

\* C7 witness: a deactivated core stays Armed, with its callback not called,
\* after the setter that armed it has returned
C7_Witness ==
  /\ core.state = Armed
  /\ ~core.active
  /\ invoked = <<>>
  /\ \A t \in Threads : Quiet(t)

\* a thread is inside maybeCallback and has yet to attempt Armed -> Done
InMaybeCallback(t) ==
  th[t].pc \in {"maybeCallback", "maybeCallback:active",
                "maybeCallback:tryUpdateState"}

\* C8 as stated: when activate() returns and no deactivate followed its
\* store, the state is not Armed.
C8_NotArmedAtReturnAsStated ==
  [][\A t \in Clients :
       (th[t].op = "activate" /\ th[t].pc = "return" /\ th'[t].pc = "idle"
          /\ t \notin hist.stale)
         => core.state # Armed]_vars

\* C8 (amended): whenever the state is Armed and active is true, some thread
\* (the setter that armed the core, or an activate) is still inside its
\* maybeCallback and has yet to make its attempt, so the dispatch is never
\* lost; but it need not have happened when activate() returns, and when an
\* activate() does return with the state Armed and no deactivate after its
\* store, such a thread exists.
C8_NoLostWakeup ==
  /\ (core.state = Armed /\ core.active) =>
        \E t \in Clients : InMaybeCallback(t)
  /\ \A t \in Clients :
       (th[t].op = "activate" /\ th[t].pc = "return" /\ t \notin hist.stale
          /\ core.state = Armed)
         => (core.active /\ \E u \in Clients \ {t} : InMaybeCallback(u))

\* C8 witness: an activate() has driven to Done a core that was armed while
\* deactivated, and is about to return
C8_Witness ==
  /\ \E t \in Clients : th[t].op = "activate" /\ th[t].pc = "return"
  /\ core.state = Done
  /\ hist.doneBy # None /\ hist.doneBy[1].op = "activate"
  /\ invoked # <<>>

\* the positions at which a thread holds a reference that doCallback took:
\* from attached_++ to SCOPE_EXIT's detachOne, and from attached_ += 2 to the
\* detachOne of guard_local_scope (the closure's reference, once the
\* executor holds or runs or drops the closure, is counted apart)
HoldsOne ==
  {"doCallback:callback_", "doCallback:SCOPE_EXIT.callback_={}",
   "doCallback:SCOPE_EXIT.detachOne",
   "doCallback:result_=ew", "doCallback:callback_(ew)",
   "doCallback:~guard_local_scope.derefCallback",
   "doCallback:~guard_local_scope.detachOne",
   "closure:callback_", "closure:~cr.derefCallback", "closure:~cr.detachOne",
   "discard:~closure.derefCallback", "discard:~closure.detachOne"}
HoldsTwo ==
  {"doCallback:callbackReferences_+=2", "doCallback:add",
   "doCallback:~closure.derefCallback", "doCallback:~closure.detachOne"}

\* the references to the core that are held: one by each side that has not
\* completed its detach, one for each reference doCallback took and has
\* not released
Holders ==
  LET side(t) == IF th[t].pc = "gone" THEN 0 ELSE 1
      dispatch(t) == IF th[t].pc \in HoldsOne THEN 1
                     ELSE IF th[t].pc \in HoldsTwo THEN 2 ELSE 0
  IN side(Promise) + side(Future) + Len(queue)
       + dispatch(Promise) + dispatch(Future) + dispatch(Other)
       + dispatch(Executor)

\* C9: attached counts exactly the holders of the core, so it is positive
\* while a side or a dispatch reference holds the core; the core is deleted
\* at most once, exactly when attached is 0; detachOne never runs with
\* attached = 0; and once the core is deleted both sides are gone and no
\* thread is inside a call, no closure is queued (each side detaching once,
\* as its last call).
C9_AttachedAndDestruction ==
  /\ core.attached = Holders
  /\ deletes <= 1
  /\ alive <=> core.attached > 0
  /\ alive <=> deletes = 0
  /\ \A t \in Threads : th[t].pc \in DetachOnePcs => core.attached >= 1
  /\ ~alive =>
       /\ \A t \in Threads : Quiet(t)
       /\ th[Promise].pc = "gone" /\ th[Future].pc = "gone"
       /\ queue = <<>>
       /\ ~ENABLED Next

\* C9 witness: the core was destroyed by the executor dropping the closure,
\* after both sides had detached
C9_Witness ==
  /\ ~alive
  /\ hist.discarded
  /\ core.attached = 0

\* C10: getTry() goes on to return exactly when the state its ready() reads
\* is OnlyResult, Armed or Done, and what it returns is the populated result
\* slot, holding the installed value or the executor's failure that replaced
\* it; in the states Start and OnlyCallback it throws the not-ready error;
\* no step of getTry changes the core.
C10_GetTry ==
  [][\A t \in Clients :
       /\ CallStep(t, "getTry") =>
            /\ core' = core
            /\ hasResult(core.state) <=> th'[t].pc = "getTry:*result_"
            /\ core.state \in {Start, OnlyCallback}
                 <=> Throws(t, "FutureNotReady")
       /\ (th[t].pc = "getTry:*result_" /\ th'[t] # th[t]) =>
            /\ core' = core
            /\ th'[t].pc = "return"
            /\ th'[t].outcome.ret = core.result
            /\ core.result # None
            /\ hasResult(core.state)
            /\ core.result \in {hist.installed, Some(ExecutorFailure)}
            /\ core.result = Some(ExecutorFailure) => hist.rejected
       /\ (th[t].pc # "throw" /\ Throws(t, "FutureNotReady"))
             => CallStep(t, "getTry") ]_vars

\* C10 witness: a getTry() on a Done core is returning the result that the
\* callback has received
C10_Witness ==
  \E t \in Clients :
    /\ th[t].op = "getTry" /\ th[t].pc = "return"
    /\ th[t].outcome.ret = Some(TryValue(1))
    /\ core.state = Done
    /\ invoked # <<>>

\* the handler invocation made by thread t for handler fn with interrupt e
Handling(fn, e, t) == [handler |-> fn, interrupt |-> e, thread |-> t]

\* C11 as stated: every setInterruptHandler called once an interrupt is
\* stored invokes the handler it is given, with the stored interrupt.
C11_HandlerAfterRaiseInvokedAsStated ==
  [][(CallStep(Promise, "setInterruptHandler") /\ core.interrupt # None)
       => handled' = Append(handled,
                            Handling(calls + 1, core.interrupt[1], Promise))
    ]_vars

\* C11 (amended): a stored interrupt is never replaced; a raise stores its
\* value exactly when no interrupt is stored and the state it reads has no
\* result, and invokes the installed handler, if any, with it; every other
\* raise changes nothing and invokes no handler; a setInterruptHandler
\* called once an interrupt is stored invokes its handler once, in that
\* call, with the stored interrupt, and installs nothing, provided no result
\* is set: with a result set it does nothing at all.  No handler is invoked
\* twice, and every invocation carries the one stored interrupt.
C11_InterruptStoredOnce ==
  [][ /\ core.interrupt # None => core'.interrupt = core.interrupt
      /\ CallStep(Future, "raise") =>
           /\ core' = core /\ handled' = handled
           /\ (core.interrupt = None /\ ~hasResult(core.state))
                <=> th'[Future].pc = "raise:interrupt_=e"
           /\ th'[Future].pc # "raise:interrupt_=e"
                => th'[Future].pc = "return"
      /\ (th[Future].pc = "raise:interrupt_=e" /\ th'[Future] # th[Future]) =>
           /\ core.interrupt = None
           /\ core' = [core EXCEPT !.interrupt = th[Future].arg]
           /\ handled' =
                IF core.interruptHandler = None
                  THEN handled
                  ELSE Append(handled,
                              Handling(core.interruptHandler[1],
                                       th[Future].arg[1], Future))
      /\ CallStep(Promise, "setInterruptHandler") =>
           /\ th'[Promise].pc = "return"
           /\ (core.interrupt # None /\ ~hasResult(core.state)) =>
                /\ core' = core
                /\ handled' =
                     Append(handled,
                            Handling(calls + 1, core.interrupt[1], Promise))
           /\ hasResult(core.state) => (core' = core /\ handled' = handled)
      /\ handled' # handled =>
           \/ CallStep(Promise, "setInterruptHandler")
           \/ th[Future].pc = "raise:interrupt_=e"
      /\ \A i, j \in DOMAIN handled' :
           /\ handled'[i].handler = handled'[j].handler => i = j
           /\ core'.interrupt = Some(handled'[i].interrupt)
    ]_vars

\* C11 witness: raise(X), then a setInterruptHandler whose handler was
\* invoked with X, then a second raise that is returning with nothing
\* changed
C11_Witness ==
  /\ Len(handled) = 1
  /\ handled[1].thread = Promise
  /\ core.interrupt = Some(handled[1].interrupt)
  /\ core.interruptHandler = None
  /\ th[Future].op = "raise" /\ th[Future].pc = "return"

\* a core with its three interrupt fields blanked
WithoutInterrupt(c) ==
  [c EXCEPT !.interrupt = None, !.interruptHandler = None,
            !.interruptHandlerSet = FALSE]

\* C12: no step of raise or setInterruptHandler changes anything of the
\* core but the interrupt, the interrupt handler and its flag, nor invokes
\* the callback, queues a closure or destroys the core; and from every state
\* in which the promise side holds a core without result, whatever was
\* raised or registered, setResult(v) does not throw, stores v, advances the
\* state and dispatches exactly as it does on the same core with no
\* interrupt and no handler.
C12_InterruptionAdvisory ==
  [][ /\ \A t \in Clients :
           ((CallStep(t, "raise") \/ CallStep(t, "setInterruptHandler")
               \/ th[t].op \in {"raise", "setInterruptHandler"})
              /\ th'[t] # th[t])
             => /\ WithoutInterrupt(core') = WithoutInterrupt(core)
                /\ UNCHANGED <<alive, deletes, invoked, queue>>
      /\ PromiseWithoutResult =>
           \A v \in Values, accepts \in BOOLEAN :
             LET plain == [World EXCEPT !.core = WithoutInterrupt(core)]
                 here == runSetResult(World, Promise, "setResult", v, accepts)
                 there == runSetResult(plain, Promise, "setResult", v, accepts)
             IN /\ here.err = "none"
                /\ here.core.result \in {Some(v), Some(ExecutorFailure)}
                /\ here.core.state =
                     IF core.state = Start THEN OnlyResult
                     ELSE IF core.active THEN Done ELSE Armed
                /\ [here EXCEPT !.core = WithoutInterrupt(@)] = there
                /\ here.core.interrupt = core.interrupt
                /\ here.core.interruptHandler = core.interruptHandler
      /\ (CallStep(Promise, "setResult") /\ ~hasResult(core.state))
           => th'[Promise].pc = "setResult:tryUpdateState"
    ]_vars

\* C12 witness: after a raise stored its interrupt, setResult(1) completed
\* the core and the callback received 1
C12_Witness ==
  /\ core.interrupt # None
  /\ core.state = Done
  /\ invoked # <<>>
  /\ invoked[1].arg = Some(TryValue(1))
  /\ hist.armedBy = Some([thread |-> Promise, op |-> "setResult"])

\* C13: in every reachable state the FSM state is OnlyResult, Armed or Done
\* exactly when the result slot is populated, so hasResult() and ready()
\* agree with the slot; the state and the slot change together, in one FSM
\* critical section (or in the constructor).
C13_StateAgreesWithResultSlot ==
  /\ core.state \in {OnlyResult, Armed, Done} <=> core.result # None
  /\ hasResult(core.state) <=> core.result # None
  /\ core.state \in {Start, OnlyCallback} <=> core.result = None

\* C13 witness: detachPromise has installed the broken-promise failure in a
\* core that had neither result nor callback
C13_Witness ==
  /\ core.state = OnlyResult
  /\ core.result = Some(BrokenPromise)
  /\ th[Promise].op = "detachPromise"

\* C14 as stated: no step taken in the state Done changes the result slot.
C14_ReadOnlyAfterDoneAsStated ==
  [][core.state = Done => core'.result = core.result]_vars

\* C14 (amended): the result slot changes only in the FSM step that installs
\* a result (Start -> OnlyResult, OnlyCallback -> Armed) and, in the state
\* Done, in the one step of doCallback that replaces it with the executor's
\* failure after add / addWithPriority threw: that step is taken by the
\* thread that took Armed -> Done, once, before the callback is called.
\* Once the callback has been called the slot never changes.
C14_ResultWrittenAfterDoneOnlyOnRejection ==
  [][ /\ core'.result # core.result =>
           \/ /\ <<core.state, core'.state>> \in
                   {<<Start, OnlyResult>>, <<OnlyCallback, Armed>>}
              /\ core.result = None
           \/ /\ core.state = Done /\ core'.state = Done
              /\ hist.rejected
              /\ invoked = <<>>
              /\ core.result = hist.installed
              /\ core'.result = Some(ExecutorFailure)
              /\ \E t \in Clients :
                   /\ hist.doneBy # None /\ hist.doneBy[1].thread = t
                   /\ th[t].pc = "doCallback:result_=ew"
                   /\ th'[t].pc = "doCallback:callback_(ew)"
      /\ invoked # <<>> => core'.result = core.result
      /\ (core.state = Done /\ ~hist.rejected) => core'.result = core.result
    ]_vars

\* C14 witness: a core in Done whose installed result 1 has been replaced by
\* the executor's failure, every call having returned
C14_Witness ==
  /\ core.state = Done
  /\ hist.rejected
  /\ hist.installed = Some(TryValue(1))
  /\ core.result = Some(ExecutorFailure)
  /\ \A t \in Threads : Quiet(t)

\* the positions inside doCallback
InDoCallback(t) ==
  th[t].pc \in {"doCallback", "doCallback:priority_",
                "doCallback:attached_+=2",
                "doCallback:attached_++"} \cup HoldsOne \cup HoldsTwo
    /\ t # Executor

\* the calls whose maybeCallback can take Armed -> Done
Dispatchers == {"setResult", "setCallback", "detachPromise", "activate",
                "detachFuture"}

\* C15 as stated: the call that took Armed -> Done is the call that took
\* the transition into Armed.
C15_ArmingSetterDispatchesAsStated ==
  hist.doneBy # None => hist.doneBy = hist.armedBy

\* C15 (amended): Armed -> Done is taken at most once per core, by the
\* maybeCallback whose tryUpdateState(Armed, Done) succeeds, and doCallback
\* is entered at most once, by that thread in that call, after the core was
\* armed; the call is either the setter that armed the core or an
\* activate() or detachFuture() that found the core Armed.
C15_OneDispatcher ==
  [][ /\ (core.state = Armed /\ core'.state = Done) =>
           /\ hist.doneBy = None
           /\ hist.armedBy # None
           /\ \E t \in Clients :
                /\ th[t].pc = "maybeCallback:tryUpdateState"
                /\ th'[t].pc = "doCallback"
                /\ hist'.doneBy = Some([thread |-> t, op |-> th[t].op])
                /\ \A u \in Threads \ {t} : th'[u] = th[u]
      /\ hist.doneBy # None =>
           /\ hist'.doneBy = hist.doneBy
           /\ hist'.armedBy = hist.armedBy
           /\ core.state = Done
           /\ hist.doneBy[1].op \in Dispatchers
           /\ \/ hist.doneBy = hist.armedBy
              \/ hist.doneBy[1].op \in {"activate", "detachFuture"}
      /\ \A t \in Threads :
           /\ (~InDoCallback(t) /\ InDoCallback(t)')
                => (core.state = Armed /\ core'.state = Done)
           /\ InDoCallback(t) =>
                (hist.doneBy = Some([thread |-> t, op |-> th[t].op])
                   /\ \A u \in Threads \ {t} : ~InDoCallback(u))
    ]_vars

\* C15 witness: setResult armed a deactivated core, and the detachFuture
\* that followed took Armed -> Done and called the callback
C15_Witness ==
  /\ hist.armedBy = Some([thread |-> Promise, op |-> "setResult"])
  /\ hist.doneBy = Some([thread |-> Future, op |-> "detachFuture"])
  /\ invoked # <<>>
  /\ invoked[1].thread = Future

\* the CoreAndCallbackReferences that have yet to call derefCallback: both
\* guards from callbackReferences_ += 2 until the closure's is released or
\* handed over, guard_local_scope until the end of doCallback, the closure's
\* while the executor holds, runs or drops the closure
CallbackRefHolders ==
  LET refs(t) ==
        IF th[t].pc \in {"doCallback:add", "doCallback:~closure.derefCallback"}
          THEN 2
        ELSE IF th[t].pc \in
                  {"doCallback:~closure.detachOne", "doCallback:result_=ew",
                   "doCallback:callback_(ew)",
                   "doCallback:~guard_local_scope.derefCallback",
                   "closure:callback_", "closure:~cr.derefCallback",
                   "discard:~closure.derefCallback"}
          THEN 1
        ELSE 0
  IN Len(queue) + refs(Promise) + refs(Future) + refs(Other) + refs(Executor)

\* C16: while callbackReferences_ is positive, and while any dispatch
\* reference has yet to call derefCallback, the callback slot is populated;
\* the slot is emptied only by the derefCallback that takes
\* callbackReferences_ from 1 to 0 or, when doCallback read no executor and
\* took no reference, by its SCOPE_EXIT; and the step in which
\* callbackReferences_ reaches 0 empties it.
C16_CallbackKeptWhileReferenced ==
  [][ /\ core.callbackReferences > 0 => core.callback # None
      /\ CallbackRefHolders > 0 => core.callback # None
      /\ (core.callback # None /\ core'.callback = None) =>
           \/ /\ core.callbackReferences = 1
              /\ core'.callbackReferences = 0
              /\ CallbackRefHolders = 1
              /\ \E t \in Threads : /\ th[t].pc \in DerefCallbackPcs
                                    /\ th'[t].pc = AfterDerefCallback(th[t].pc)
           \/ /\ core.callbackReferences = 0
              /\ core'.callbackReferences = 0
              /\ CallbackRefHolders = 0
              /\ \E t \in Clients :
                   /\ th[t].pc = "doCallback:SCOPE_EXIT.callback_={}"
                   /\ th'[t].pc = "doCallback:SCOPE_EXIT.detachOne"
                   /\ th[t].x = None
      /\ (core.callbackReferences > 0 /\ core'.callbackReferences = 0)
           => (core'.callback = None /\ CallbackRefHolders' = 0)
      /\ core.callbackReferences >= 2 => core'.callback = core.callback
    ]_vars

\* C16 witness: doCallback has released guard_local_scope and the slot
\* still holds the callback for the closure that the executor holds
C16_Witness ==
  /\ core.callbackReferences = 1
  /\ core.callback # None
  /\ Len(queue) = 1
  /\ \A t \in Threads : Quiet(t)

\* the detachOne calls that release a reference taken by doCallback
DispatchDetachOnePcs ==
  DetachOnePcs \ {"detachPromise:detachOne", "detachFuture:detachOne"}

\* C17: the step that takes attached_ to 0 finds the callback slot empty
\* and callbackReferences_ at 0, so a destroyed core holds no callback;
\* a registered callback is never left undispatched by destruction; and
\* whenever a reference taken by doCallback is about to be released, the
\* slot has been emptied or another dispatch reference, which will empty
\* it, is still to call derefCallback.
C17_CallbackEmptyByDestruction ==
  [][ /\ (core.attached = 1 /\ core'.attached = 0) =>
           /\ core.callback = None
           /\ core.callbackReferences = 0
           /\ core.state \in {Start, OnlyResult, Done}
           /\ ~alive'
      /\ ~alive => (core.callback = None /\ core' = core)
      /\ \A t \in Threads :
           th[t].pc \in DispatchDetachOnePcs =>
              (core.callback = None \/ CallbackRefHolders > 0)
    ]_vars

\* C17 witness: a core destroyed after a dispatch without executor, its
\* slot emptied after the callback ran
C17_Witness ==
  /\ ~alive
  /\ core.callback = None
  /\ Len(invoked) = 1
  /\ invoked[1].callback # None
  /\ invoked[1].thread \in Clients
  /\ ~hist.rejected

\* the sides that have not completed their detach
Sides ==
  (IF th[Promise].pc = "gone" THEN 0 ELSE 1)
    + (IF th[Future].pc = "gone" THEN 0 ELSE 1)

\* C18: doCallback with an executor adds 2 to attached_ and then 2 to
\* callbackReferences_; each CoreAndCallbackReference (guard_local_scope,
\* the closure's) takes 1 from callbackReferences_ and then 1 from attached_,
\* once, whether the closure runs, is dropped unrun or is refused by the
\* executor; callbackReferences_ always equals the references that have yet
\* to call derefCallback and attached_ the holders of the core, so the core
\* is alive while a reference is outstanding, and once both are released
\* callbackReferences_ is 0 again and attached_ counts the two sides only.
C18_ExecutorDispatchBalanced ==
  [][ /\ core.callbackReferences = CallbackRefHolders
      /\ core.callbackReferences \in 0..2
      /\ core.attached = Holders
      /\ Holders - Sides \in 0..2
      /\ CallbackRefHolders <= Holders - Sides
      /\ (Holders - Sides > 0) => alive
      /\ \A t \in Threads :
           /\ (th[t].pc = "doCallback:attached_+=2" /\ th'[t] # th[t]) =>
                /\ core'.attached = core.attached + 2
                /\ core'.callbackReferences = core.callbackReferences
                /\ core.callbackReferences = 0
           /\ (th[t].pc = "doCallback:callbackReferences_+=2"
                 /\ th'[t] # th[t]) =>
                /\ core'.callbackReferences = 2
                /\ core'.attached = core.attached
           /\ (th[t].pc \in DerefCallbackPcs /\ th'[t] # th[t]) =>
                /\ core'.callbackReferences = core.callbackReferences - 1
                /\ core'.attached = core.attached
                /\ th'[t].pc = AfterDerefCallback(th[t].pc)
                /\ th'[t].pc \in DispatchDetachOnePcs
           /\ (th[t].pc \in DispatchDetachOnePcs /\ th'[t] # th[t]) =>
                /\ core'.attached = core.attached - 1
                /\ core'.callbackReferences = core.callbackReferences
                /\ th'[t].pc \notin DerefCallbackPcs \cup DispatchDetachOnePcs
      /\ (hist.doneBy # None /\ queue = <<>> /\ \A t \in Threads : Quiet(t))
           => (core.callbackReferences = 0 /\ core.attached = Sides)
    ]_vars

\* C18 witness: the executor has dropped the closure unrun, both references
\* are released, both sides still hold the core and the counters are back
\* at 2 and 0
C18_Witness ==
  /\ hist.discarded
  /\ alive
  /\ invoked = <<>>
  /\ core.attached = 2
  /\ core.callbackReferences = 0
  /\ queue = <<>>
  /\ \A t \in Threads : Quiet(t)

\* a dispatch has yet to read executor_ or priority_
ReadingExecutor(t) == th[t].pc \in {"doCallback", "doCallback:priority_"}

\* thread t is in setExecutor, past its assertion, its two stores not done
StoringExecutor(t) ==
  th[t].pc \in {"setExecutor:executor_=x", "setExecutor:priority_=priority"}

\* the callback is being dispatched, is queued on an executor or is running
CallbackInFlight ==
  \/ \E t \in Threads : InDoCallback(t)
  \/ queue # <<>>
  \/ ~Quiet(Executor)

\* C19 as stated: in every state whose FSM state is Start, OnlyResult or
\* Done the callback is neither executing nor pending on an executor, and no
\* setExecutor that passed its assertion overlaps a dispatch that has yet to
\* read executor_ and priority_.
C19_AllowedStatesQuiescentAsStated ==
  /\ core.state \in {Start, OnlyResult, Done} => ~CallbackInFlight
  /\ \A t, u \in Threads : ~(StoringExecutor(t) /\ ReadingExecutor(u))

\* C19 (amended): in the states Start and OnlyResult no callback is
\* registered, none is being dispatched, queued or running, and a
\* setExecutor that read one of these states overlaps no dispatch.  The
\* state Done is entered before doCallback reads executor_ and priority_, so
\* in Done the callback may still be about to be dispatched, queued or
\* running; there a dispatch has finished reading executor_ and priority_
\* once the callback has been invoked or handed to the executor, and only a
\* setExecutor called after that overlaps no read.  setExecutor's assertion
\* never passes in OnlyCallback or Armed.
C19_SetExecutorSafeBeforeCallbackOrAfterInvocation ==
  /\ core.state \in {Start, OnlyResult} =>
       /\ ~CallbackInFlight
       /\ core.callback = None
       /\ invoked = <<>>
  /\ \A t \in Threads :
       (StoringExecutor(t) /\ th[t].st \in {Start, OnlyResult}) =>
          /\ core.state \in {Start, OnlyResult}
          /\ ~CallbackInFlight
  /\ \A t \in Threads :
       StoringExecutor(t) =>
          (t = Future /\ th[t].st \in {Start, OnlyResult, Done})
  /\ \A u \in Threads :
       ReadingExecutor(u) =>
          /\ core.state = Done
          /\ invoked = <<>> /\ queue = <<>> /\ Quiet(Executor)
          /\ ~hist.rejected /\ ~hist.discarded
  /\ (core.state = Done /\ (invoked # <<>> \/ hist.discarded \/ queue # <<>>))
       => \A u \in Threads : ~ReadingExecutor(u)

\* C19 witness: setExecutor, called in the state Done after the callback
\* was invoked, is between its assertion and its stores, and no dispatch is
\* reading
C19_Witness ==
  /\ StoringExecutor(Future)
  /\ th[Future].st = Done
  /\ core.state = Done
  /\ invoked # <<>>
  /\ \A u \in Threads : ~ReadingExecutor(u)

\* C20 as stated: no step taken while a result is set stores an interrupt,
\* installs a handler or invokes one.
C20_NothingDeliveredAfterResultAsStated ==
  [][hasResult(core.state) =>
       /\ core'.interrupt = core.interrupt
       /\ core'.interruptHandler = core.interruptHandler
       /\ handled' = handled]_vars

\* C20 (amended): a raise and a setInterruptHandler whose hasResult() test
\* finds a result store nothing, install nothing and invoke nothing; a
\* handler is installed, or invoked by setInterruptHandler, only while no
\* result is set; an interrupt is stored, and a handler invoked by raise,
\* only by a raise whose test found no result.  setResult does not take the
\* interrupt lock, so the result may be set between that test and the
\* store: only then is an interrupt stored, and the installed handler
\* invoked, with a result already set.
C20_NothingDeliveredOnceTestSeesResult ==
  [][ /\ (CallStep(Future, "raise") /\ hasResult(core.state)) =>
           /\ th'[Future].pc = "return"
           /\ core' = core /\ handled' = handled
      /\ (CallStep(Promise, "setInterruptHandler") /\ hasResult(core.state))
           => (core' = core /\ handled' = handled)
      /\ core'.interrupt # core.interrupt =>
           /\ th[Future].pc = "raise:interrupt_=e"
           /\ th[Future].st \in {Start, OnlyCallback}
           /\ interruptLock = Some(Future)
      /\ core'.interruptHandler # core.interruptHandler =>
           /\ CallStep(Promise, "setInterruptHandler")
           /\ ~hasResult(core.state)
           /\ core.interrupt = None
      /\ handled' # handled =>
           \/ /\ CallStep(Promise, "setInterruptHandler")
              /\ ~hasResult(core.state)
           \/ /\ th[Future].pc = "raise:interrupt_=e"
              /\ th[Future].st \in {Start, OnlyCallback}
      /\ (hasResult(core.state) /\ th[Future].pc # "raise:interrupt_=e") =>
           /\ core'.interrupt = core.interrupt
           /\ core'.interruptHandler = core.interruptHandler
           /\ handled' = handled
           /\ th'[Future].pc # "raise:interrupt_=e"
    ]_vars

\* C20 witness: with a result set, a raise and a setInterruptHandler have
\* both run and are returning, nothing stored, installed or invoked
C20_Witness ==
  /\ hasResult(core.state)
  /\ th[Future].op = "raise" /\ th[Future].pc = "return"
  /\ th[Promise].op = "setInterruptHandler" /\ th[Promise].pc = "return"
  /\ core.interrupt = None
  /\ core.interruptHandler = None
  /\ handled = <<>>

====
